---- MODULE Spec2Model ----
(***************************************************************************)
(* ECDSA public keys (signatory, src/ecdsa/public_key.rs): a key is a      *)
(* compressed or an uncompressed Weierstrass curve point, built from raw   *)
(* bytes by length dispatch, from a compressed point, from an untagged     *)
(* point, or decoded through an Encoding.                                  *)
(*                                                                         *)
(* Bytes are integers 0..255, byte strings are sequences (index 1 is the   *)
(* first byte).  The curve C is fixed for a behaviour: `curve` is its      *)
(* coordinate size in bytes.  The curve-point library and the Encoding     *)
(* live outside public_key.rs; they are modelled from their description.   *)
(***************************************************************************)
EXTENDS Integers, Sequences, FiniteSets, TLC

\* curve     coordinate size of C (type parameter, public_key.rs:29-32)
\* offCurve  coordinate bytes the point constructors refuse (curve::point)
\* input     the bytes a caller starts from (from_bytes:40, :68, :82)
\* op        the last operation called
\* encoding  the Encoding of the last decode / encode (:134, :153)
\* text      the encoded text given to decode (:134)
\* result    what the constructor or decode returned (:40-88, :134-138)
\* held      the key the caller holds, and the constructor that made it
\* view      bytes returned by as_bytes / as_ref / encode; bytes of a second parse
\* other     what a second from_bytes / decode, made while holding a key, returned
VARIABLES curve, offCurve, input, op, encoding, text, result, held, view, other

vars == <<curve, offCurve, input, op, encoding, text, result, held, view, other>>

(* ------------------------------ bounds --------------------------------- *)

\* Largest coordinate size (bytes) of the curves explored.
MaxCoordSize == 2

\* First bytes tried: no tag (0x00, 0x05, 0xab) and the three SEC1 tags.
FirstBytes == {0, 2, 3, 4, 5, 171}

\* Bytes tried in every later position.
CoordBytes == {0, 171}

(* ------------------------ curve collaborator --------------------------- *)

CompressedPointSize == 1 + curve

UncompressedPointSize == 1 + 2 * curve

UntaggedPointSize == UncompressedPointSize - 1

CompressedTags == {2, 3}

\* GenericArray::default(): n zero bytes.
GenericArrayDefault(n) == [i \in 1..n |-> 0]

\* The coordinates (tag stripped) the point constructors refuse: the
\* library's validation is external, so the refused set is a parameter of
\* the behaviour (empty: only the tag is looked at).
RejectsCoords(coords) ==
    \E c \in offCurve : Len(coords) > 0 /\ \A i \in 1..Len(coords) : coords[i] = c

NoError == [kind |-> "none", origin |-> "none", detail |-> 0]

KeyInvalid(origin, detail) == [kind |-> "KeyInvalid", origin |-> origin, detail |-> detail]

\* CompressedCurvePoint::new: the point, or the library's error.
CompressedCurvePointNew(bytes) ==
    IF bytes[1] \notin CompressedTags
    THEN [ok |-> FALSE, bytes |-> <<>>, err |-> KeyInvalid("CompressedCurvePoint", bytes[1])]
    ELSE IF RejectsCoords(Tail(bytes))
    THEN [ok |-> FALSE, bytes |-> <<>>, err |-> KeyInvalid("CompressedCurvePoint", -1)]
    ELSE [ok |-> TRUE, bytes |-> bytes, err |-> NoError]

\* UncompressedCurvePoint::new: the point, or the library's error.
UncompressedCurvePointNew(bytes) ==
    IF bytes[1] # 4
    THEN [ok |-> FALSE, bytes |-> <<>>, err |-> KeyInvalid("UncompressedCurvePoint", bytes[1])]
    ELSE IF RejectsCoords(Tail(bytes))
    THEN [ok |-> FALSE, bytes |-> <<>>, err |-> KeyInvalid("UncompressedCurvePoint", -1)]
    ELSE [ok |-> TRUE, bytes |-> bytes, err |-> NoError]

\* CompressedCurvePoint::as_bytes / UncompressedCurvePoint::as_bytes.
PointAsBytes(point) == point.bytes

(* ----------------------------- results --------------------------------- *)

NoKey == [variant |-> "none", point |-> [bytes |-> <<>>]]

\* Result<EcdsaPublicKey, Error>, a panic, and the constructors consulted.
Ok(key, consulted) ==
    [tag |-> "Ok", key |-> key, err |-> NoError, consulted |-> consulted]

Err(error, consulted) ==
    [tag |-> "Err", key |-> NoKey, err |-> error, consulted |-> consulted]

Panic(consulted) ==
    [tag |-> "Panic", key |-> NoKey, err |-> NoError, consulted |-> consulted]

NoResult == [tag |-> "none", key |-> NoKey, err |-> NoError, consulted |-> {}]

Compressed(point) == [variant |-> "Compressed", point |-> [bytes |-> point.bytes]]

Uncompressed(point) == [variant |-> "Uncompressed", point |-> [bytes |-> point.bytes]]

(* --------------------------- EcdsaPublicKey ---------------------------- *)

\* from_bytes, but a slice of UntaggedPointSize bytes is tagged and accepted.
from_bytes_tagging(bytes) ==
    LET length == Len(bytes)
        tagged == <<4>> \o bytes
    IN
    IF length = CompressedPointSize
    THEN LET point == CompressedCurvePointNew(bytes) IN
         IF point.ok THEN Ok(Compressed(point), {"CompressedCurvePoint"})
         ELSE Err(point.err, {"CompressedCurvePoint"})
    ELSE IF length = UncompressedPointSize
    THEN LET point == UncompressedCurvePointNew(bytes) IN
         IF point.ok THEN Ok(Uncompressed(point), {"UncompressedCurvePoint"})
         ELSE Err(point.err, {"UncompressedCurvePoint"})
    ELSE IF length = UntaggedPointSize
    THEN LET point == UncompressedCurvePointNew(tagged) IN
         IF point.ok THEN Ok(Uncompressed(point), {"UncompressedCurvePoint"})
         ELSE Err(point.err, {"UncompressedCurvePoint"})
    ELSE Err(KeyInvalid("from_bytes", length), {})

\* from_bytes, but the uncompressed branch wraps the array without validation.
from_bytes_unchecked(bytes) ==
    LET length == Len(bytes) IN
    IF length = CompressedPointSize
    THEN LET point == CompressedCurvePointNew(bytes) IN
         IF point.ok THEN Ok(Compressed(point), {"CompressedCurvePoint"})
         ELSE Err(point.err, {"CompressedCurvePoint"})
    ELSE IF length = UncompressedPointSize
    THEN Ok(Uncompressed([bytes |-> bytes]), {})
    ELSE Err(KeyInvalid("from_bytes", length), {})

\* from_bytes, but a constructor's error is replaced by the length error.
from_bytes_masking(bytes) ==
    LET length == Len(bytes) IN
    IF length = CompressedPointSize
    THEN LET point == CompressedCurvePointNew(bytes) IN
         IF point.ok THEN Ok(Compressed(point), {"CompressedCurvePoint"})
         ELSE Err(KeyInvalid("from_bytes", length), {"CompressedCurvePoint"})
    ELSE IF length = UncompressedPointSize
    THEN LET point == UncompressedCurvePointNew(bytes) IN
         IF point.ok THEN Ok(Uncompressed(point), {"UncompressedCurvePoint"})
         ELSE Err(KeyInvalid("from_bytes", length), {"UncompressedCurvePoint"})
    ELSE Err(KeyInvalid("from_bytes", length), {})

\* EcdsaPublicKey::from_bytes
from_bytes(bytes) ==
    LET length == Len(bytes) IN
    IF length = CompressedPointSize
    THEN LET point == CompressedCurvePointNew(bytes) IN
         IF point.ok THEN Ok(Compressed(point), {"CompressedCurvePoint"})
         ELSE Err(point.err, {"CompressedCurvePoint"})
    ELSE IF length = UncompressedPointSize
    THEN LET point == UncompressedCurvePointNew(bytes) IN
         IF point.ok THEN Ok(Uncompressed(point), {"UncompressedCurvePoint"})
         ELSE Err(point.err, {"UncompressedCurvePoint"})
    ELSE Err(KeyInvalid("from_bytes", length), {})

\* from_compressed_point, but the point is wrapped in the other variant.
from_compressed_point_miswrapped(into_bytes) ==
    LET point == CompressedCurvePointNew(into_bytes) IN
    IF point.ok THEN Ok(Uncompressed(point), {"CompressedCurvePoint"})
    ELSE Err(point.err, {"CompressedCurvePoint"})

\* EcdsaPublicKey::from_compressed_point
from_compressed_point(into_bytes) ==
    LET point == CompressedCurvePointNew(into_bytes) IN
    IF point.ok THEN Ok(Compressed(point), {"CompressedCurvePoint"})
    ELSE Err(point.err, {"CompressedCurvePoint"})

\* from_untagged_point, but byte 0 is left as GenericArray::default() made it.
from_untagged_point_untagged(bytes) ==
    LET zeroed == GenericArrayDefault(UncompressedPointSize)
        tagged_bytes == [i \in 1..Len(zeroed) |-> IF i = 1 THEN zeroed[1] ELSE bytes[i - 1]]
        point == UncompressedCurvePointNew(tagged_bytes)
    IN  IF point.ok THEN Ok(Uncompressed(point), {"UncompressedCurvePoint"})
        ELSE Panic({"UncompressedCurvePoint"})

\* from_untagged_point, but the coordinates are copied in reverse order.
from_untagged_point_reversed(bytes) ==
    LET zeroed == GenericArrayDefault(UncompressedPointSize)
        tagged_bytes == [i \in 1..Len(zeroed) |->
                            IF i = 1 THEN 4 ELSE bytes[Len(bytes) + 2 - i]]
        point == UncompressedCurvePointNew(tagged_bytes)
    IN  IF point.ok THEN Ok(Uncompressed(point), {"UncompressedCurvePoint"})
        ELSE Panic({"UncompressedCurvePoint"})

\* EcdsaPublicKey::from_untagged_point: unwrap() panics on the library's error.
from_untagged_point(bytes) ==
    LET zeroed == GenericArrayDefault(UncompressedPointSize)
        tagged_bytes == [i \in 1..Len(zeroed) |-> IF i = 1 THEN 4 ELSE bytes[i - 1]]
        point == UncompressedCurvePointNew(tagged_bytes)
    IN  IF point.ok THEN Ok(Uncompressed(point), {"UncompressedCurvePoint"})
        ELSE Panic({"UncompressedCurvePoint"})

\* as_bytes, but the uncompressed point is returned without its tag byte.
as_bytes_untagging(key) ==
    IF key.variant = "Compressed" THEN PointAsBytes(key.point)
    ELSE Tail(PointAsBytes(key.point))

\* as_bytes, but the compressed point's tag is normalised to 0x02.
as_bytes_retagging(key) ==
    IF key.variant = "Compressed"
    THEN [i \in 1..Len(PointAsBytes(key.point)) |->
            IF i = 1 THEN 2 ELSE PointAsBytes(key.point)[i]]
    ELSE PointAsBytes(key.point)

\* EcdsaPublicKey::as_bytes
as_bytes(key) ==
    IF key.variant = "Compressed" THEN PointAsBytes(key.point)
    ELSE PointAsBytes(key.point)

\* <EcdsaPublicKey as AsRef<[u8]>>::as_ref
as_ref(key) == as_bytes(key)

(* ------------------------------ Encoding ------------------------------- *)

Encodings == {"Raw", "Hex"}

EncodingError(scheme, detail) == [kind |-> "DecodeError", origin |-> scheme, detail |-> detail]

\* Lower-case hexadecimal digit (ASCII) of a nibble, and back (-1: no digit).
HexDigit(v) == IF v < 10 THEN 48 + v ELSE 87 + v

HexValue(c) ==
    IF c >= 48 /\ c <= 57 THEN c - 48
    ELSE IF c >= 97 /\ c <= 102 THEN c - 87
    ELSE -1

\* Encoding::encode_vec
EncodeVec(scheme, bytes) ==
    IF scheme = "Raw" THEN bytes
    ELSE [i \in 1..(2 * Len(bytes)) |->
            LET b == bytes[(i + 1) \div 2] IN
            IF i % 2 = 1 THEN HexDigit(b \div 16) ELSE HexDigit(b % 16)]

\* Encoding::decode(src, dst): the decoded length and dst with the decoded
\* bytes written at its front, or an error (dst too small, malformed text).
EncodingDecode(scheme, src, dst) ==
    LET n == IF scheme = "Raw" THEN Len(src) ELSE Len(src) \div 2
        byte(i) == IF scheme = "Raw" THEN src[i]
                   ELSE 16 * HexValue(src[2 * i - 1]) + HexValue(src[2 * i])
    IN  IF scheme = "Hex" /\ Len(src) % 2 # 0
        THEN [ok |-> FALSE, len |-> 0, dst |-> dst, err |-> EncodingError(scheme, Len(src))]
        ELSE IF n > Len(dst)
        THEN [ok |-> FALSE, len |-> 0, dst |-> dst, err |-> EncodingError(scheme, n)]
        ELSE IF scheme = "Hex" /\ \E i \in 1..Len(src) : HexValue(src[i]) = -1
        THEN [ok |-> FALSE, len |-> 0, dst |-> dst, err |-> EncodingError(scheme, -1)]
        ELSE [ok |-> TRUE, len |-> n,
              dst |-> [i \in 1..Len(dst) |-> IF i <= n THEN byte(i) ELSE dst[i]],
              err |-> NoError]

\* decode, but from_bytes is given the whole scratch array.
decode_capacity(encoded_signature, scheme) ==
    LET array == GenericArrayDefault(UncompressedPointSize)
        decoded == EncodingDecode(scheme, encoded_signature, array)
    IN  IF ~decoded.ok THEN Err(decoded.err, {})
        ELSE from_bytes(decoded.dst)

\* <EcdsaPublicKey as Decode>::decode
decode(encoded_signature, scheme) ==
    LET array == GenericArrayDefault(UncompressedPointSize)
        decoded == EncodingDecode(scheme, encoded_signature, array)
    IN  IF ~decoded.ok THEN Err(decoded.err, {})
        ELSE from_bytes(SubSeq(decoded.dst, 1, decoded.len))

\* encode, but the tag byte is left out of the encoded bytes.
encode_untagged(key, scheme) == EncodeVec(scheme, Tail(as_ref(key)))

\* <EcdsaPublicKey as Encode>::encode
encode(key, scheme) == EncodeVec(scheme, as_ref(key))

\* #[derive(PartialEq)] on EcdsaPublicKey and on the points it wraps.
KeyEq(a, b) == a.variant = b.variant /\ a.point.bytes = b.point.bytes

(* ----------------------------- behaviour ------------------------------- *)

\* Byte strings of length n tried as inputs.
ByteStrings(n) ==
    IF n = 0 THEN {<<>>}
    ELSE {[i \in 1..n |-> IF i = 1 THEN f ELSE rest[i]] :
            f \in FirstBytes, rest \in [2..n -> CoordBytes]}

\* Ways an encoded text is damaged before decode sees it.
Damages == {"intact", "cut", "smudged"}

Damage(how, txt) ==
    IF how = "intact" \/ Len(txt) = 0 THEN txt
    ELSE IF how = "cut" THEN SubSeq(txt, 1, Len(txt) - 1)
    ELSE [i \in 1..Len(txt) |-> IF i = 1 THEN 103 ELSE txt[i]]

NoHeld == [key |-> NoKey, by |-> "none"]

Holding(by, res) ==
    IF res.tag = "Ok" THEN [key |-> res.key, by |-> by] ELSE NoHeld

Init ==
    /\ curve \in 1..MaxCoordSize
    /\ offCurve \in SUBSET CoordBytes
    /\ \E n \in 0..(UncompressedPointSize + 1) : input \in ByteStrings(n)
    /\ op = "init"
    /\ encoding = "none"
    /\ text = <<>>
    /\ result = NoResult
    /\ held = NoHeld
    /\ view = <<>>
    /\ other = NoResult

\* A caller parses the input bytes.
FromBytes ==
    /\ op = "init"
    /\ op' = "from_bytes"
    /\ result' = from_bytes(input)
    /\ held' = Holding("from_bytes", result')
    /\ UNCHANGED <<curve, offCurve, input, encoding, text, view, other>>

\* A caller passes a GenericArray of CompressedPointSize bytes.
FromCompressedPoint ==
    /\ op = "init"
    /\ Len(input) = CompressedPointSize
    /\ op' = "from_compressed_point"
    /\ result' = from_compressed_point(input)
    /\ held' = Holding("from_compressed_point", result')
    /\ UNCHANGED <<curve, offCurve, input, encoding, text, view, other>>

\* A caller passes a GenericArray of UntaggedPointSize bytes.
FromUntaggedPoint ==
    /\ op = "init"
    /\ Len(input) = UntaggedPointSize
    /\ op' = "from_untagged_point"
    /\ result' = from_untagged_point(input)
    /\ held' = Holding("from_untagged_point", result')
    /\ UNCHANGED <<curve, offCurve, input, encoding, text, view, other>>

\* A caller decodes a text: the input bytes encoded, possibly damaged.
Decode ==
    /\ op = "init"
    /\ \E scheme \in Encodings, how \in Damages :
        /\ encoding' = scheme
        /\ text' = Damage(how, EncodeVec(scheme, input))
        /\ result' = decode(text', scheme)
    /\ op' = "decode"
    /\ held' = Holding("decode", result')
    /\ UNCHANGED <<curve, offCurve, input, view, other>>

Constructed == held # NoHeld /\ op = held.by

\* The holder of a key reads its bytes.
AsBytes ==
    /\ Constructed
    /\ op' = "as_bytes"
    /\ view' = as_bytes(held.key)
    /\ UNCHANGED <<curve, offCurve, input, encoding, text, result, held, other>>

AsRef ==
    /\ Constructed
    /\ op' = "as_ref"
    /\ view' = as_ref(held.key)
    /\ UNCHANGED <<curve, offCurve, input, encoding, text, result, held, other>>

\* The holder parses the key's bytes again.
Reparse ==
    /\ Constructed
    /\ op' = "reparse"
    /\ view' = as_bytes(held.key)
    /\ other' = from_bytes(view')
    /\ UNCHANGED <<curve, offCurve, input, encoding, text, result, held>>

\* The holder encodes the key.
Encode ==
    /\ Constructed
    /\ \E scheme \in Encodings :
        /\ encoding' = scheme
        /\ view' = encode(held.key, scheme)
    /\ op' = "encode"
    /\ UNCHANGED <<curve, offCurve, input, text, result, held, other>>

\* The holder of an encoded key decodes it with the scheme that encoded it.
DecodeEncoded ==
    /\ op = "encode"
    /\ op' = "decode_encoded"
    /\ text' = view
    /\ other' = decode(view, encoding)
    /\ UNCHANGED <<curve, offCurve, input, encoding, result, held, view>>

\* The holder builds a second key from other bytes, to compare the two.
Second ==
    /\ Constructed
    /\ \E n \in {CompressedPointSize, UncompressedPointSize} :
       \E bytes \in ByteStrings(n) :
        /\ view' = bytes
        /\ other' = from_bytes(bytes)
    /\ op' = "second"
    /\ UNCHANGED <<curve, offCurve, input, encoding, text, result, held>>

Next ==
    \/ FromBytes
    \/ FromCompressedPoint
    \/ FromUntaggedPoint
    \/ Decode
    \/ AsBytes
    \/ AsRef
    \/ Reparse
    \/ Encode
    \/ DecodeEncoded
    \/ Second

Spec == Init /\ [][Next]_vars

(* ------------------------------ properties ----------------------------- *)

\* What the point constructors say of a buffer, asked directly.
CompressedAccepts(bytes) == CompressedCurvePointNew(bytes).ok

UncompressedAccepts(bytes) == UncompressedCurvePointNew(bytes).ok

\* The results a state holds: of the last constructor call, and of the
\* second call a holder of a key made.
Results == {result, other}

\* C1: from_bytes on a slice whose length is neither CompressedPointSize nor
\* UncompressedPointSize fails with KeyInvalid (reporting that length),
\* returns no key, whatever the content, and calls no point constructor.
LengthRejection ==
    (op = "from_bytes" /\ Len(input) \notin {CompressedPointSize, UncompressedPointSize})
        => /\ result.tag = "Err"
           /\ result.err.kind = "KeyInvalid"
           /\ result.err.detail = Len(input)
           /\ result.key = NoKey
           /\ held = NoHeld
           /\ result.consulted = {}

\* A slice of UntaggedPointSize bytes that starts with 0x04 was refused.
LengthRejectionWitness ==
    /\ op = "from_bytes"
    /\ Len(input) = UntaggedPointSize
    /\ UntaggedPointSize # CompressedPointSize
    /\ input[1] = 4
    /\ result.tag = "Err"

\* C2 as stated: from_untagged_point returns a key for every buffer of
\* UntaggedPointSize bytes and never aborts.
UntaggedNeverAborts ==
    op = "from_untagged_point" => result.tag = "Ok"

\* C2 amended: from_untagged_point never returns an error; it returns a key
\* exactly when the uncompressed-point constructor accepts 0x04 || coords,
\* and aborts exactly when the constructor refuses that buffer.
UntaggedKeyOrAbort ==
    op = "from_untagged_point"
        => /\ result.tag \in {"Ok", "Panic"}
           /\ result.tag = "Ok" <=> UncompressedAccepts(<<4>> \o input)
           /\ result.tag = "Panic" <=> ~UncompressedAccepts(<<4>> \o input)
           /\ result.consulted = {"UncompressedCurvePoint"}

\* from_untagged_point aborted on coordinates the constructor refuses.
UntaggedKeyOrAbortWitness ==
    /\ op = "from_untagged_point"
    /\ result.tag = "Panic"
    /\ Len(input) = UntaggedPointSize

\* C3: parsing the bytes of a key again gives the key back (same variant,
\* same bytes), for a key from from_compressed_point and for every key of
\* the Uncompressed variant.
RoundTripBytes ==
    (op = "reparse" /\ (held.by = "from_compressed_point" \/ held.key.variant = "Uncompressed"))
        => /\ other.tag = "Ok"
           /\ KeyEq(other.key, held.key)
           /\ other.key.variant = held.key.variant
           /\ other.key.point.bytes = held.key.point.bytes
           /\ view = held.key.point.bytes

\* A key from from_compressed_point was parsed again from its own bytes.
RoundTripBytesWitness ==
    /\ op = "reparse"
    /\ held.by = "from_compressed_point"
    /\ held.key.variant = "Compressed"
    /\ other.tag = "Ok"
    /\ Len(view) = CompressedPointSize

\* C4: a key from_untagged_point returns is Uncompressed, its bytes have length
\* UncompressedPointSize = UntaggedPointSize + 1, byte 0 is 0x04 and the
\* bytes after it are the input coordinates in order.
UntaggedTagCorrect ==
    (op = "from_untagged_point" /\ result.tag = "Ok")
        => /\ result.key.variant = "Uncompressed"
           /\ Len(as_bytes(result.key)) = UncompressedPointSize
           /\ Len(as_bytes(result.key)) = UntaggedPointSize + 1
           /\ Len(as_bytes(result.key)) = Len(input) + 1
           /\ as_bytes(result.key)[1] = 4
           /\ \A i \in 1..Len(input) : as_bytes(result.key)[i + 1] = input[i]

\* A key was built from coordinates that are not a palindrome.
UntaggedTagCorrectWitness ==
    /\ op = "from_untagged_point"
    /\ result.tag = "Ok"
    /\ input[1] # input[Len(input)]
    /\ as_bytes(result.key) = <<4>> \o input

\* C5: decoding what encode produced, with the same scheme, succeeds and
\* gives the key back: same variant, identical bytes.
EncodeDecodeInverse ==
    op = "decode_encoded"
        => /\ other.tag = "Ok"
           /\ KeyEq(other.key, held.key)
           /\ other.key.variant = held.key.variant
           /\ other.key.point.bytes = held.key.point.bytes

\* A Compressed key went through hexadecimal text and came back.
EncodeDecodeInverseWitness ==
    /\ op = "decode_encoded"
    /\ encoding = "Hex"
    /\ held.key.variant = "Compressed"
    /\ Len(text) = 2 * CompressedPointSize
    /\ other.tag = "Ok"

\* What the scheme decodes the text to, in a buffer of UncompressedPointSize bytes.
Decoded == EncodingDecode(encoding, text, GenericArrayDefault(UncompressedPointSize))

DecodedBytes == SubSeq(Decoded.dst, 1, Decoded.len)

\* C6: decode dispatches on the decoded byte count: it returns what from_bytes
\* returns on the n decoded bytes, so a key has exactly those n bytes, is
\* Compressed iff n = CompressedPointSize and Uncompressed iff
\* n = UncompressedPointSize, any other n is KeyInvalid; a failure of the
\* scheme is returned as the error, with no key and no constructor called.
DecodeExactLength ==
    op = "decode"
        => /\ ~Decoded.ok =>
                /\ result = Err(Decoded.err, {})
                /\ held = NoHeld
           /\ Decoded.ok =>
                /\ result = from_bytes(DecodedBytes)
                /\ result.tag \in {"Ok", "Err"}
                /\ result.tag = "Ok" =>
                    /\ result.key.point.bytes = DecodedBytes
                    /\ Len(result.key.point.bytes) = Decoded.len
                    /\ result.key.variant = "Compressed"
                            <=> Decoded.len = CompressedPointSize
                    /\ result.key.variant = "Uncompressed"
                            <=> Decoded.len = UncompressedPointSize
                /\ Decoded.len = CompressedPointSize /\ CompressedAccepts(DecodedBytes)
                        => result.tag = "Ok"
                /\ Decoded.len = UncompressedPointSize /\ UncompressedAccepts(DecodedBytes)
                        => result.tag = "Ok"
                /\ Decoded.len \notin {CompressedPointSize, UncompressedPointSize}
                        => result.err = KeyInvalid("from_bytes", Decoded.len)

\* A Compressed key was decoded from text shorter than the scratch buffer.
DecodeExactLengthWitness ==
    /\ op = "decode"
    /\ encoding = "Hex"
    /\ result.tag = "Ok"
    /\ result.key.variant = "Compressed"
    /\ Decoded.len < Len(Decoded.dst)

\* C7: the bytes of a Compressed key have length CompressedPointSize and those
\* of an Uncompressed key length UncompressedPointSize, whichever constructor
\* returned it; from_compressed_point never returns Uncompressed and
\* from_untagged_point never returns Compressed.
VariantFidelity ==
    /\ \A r \in Results : r.tag = "Ok" =>
          /\ r.key.variant \in {"Compressed", "Uncompressed"}
          /\ r.key.variant = "Compressed" => Len(as_bytes(r.key)) = CompressedPointSize
          /\ r.key.variant = "Uncompressed" => Len(as_bytes(r.key)) = UncompressedPointSize
    /\ held # NoHeld =>
          /\ held.key.variant = "Compressed" => Len(as_bytes(held.key)) = CompressedPointSize
          /\ held.key.variant = "Uncompressed" => Len(as_bytes(held.key)) = UncompressedPointSize
          /\ held.by = "from_compressed_point" => held.key.variant = "Compressed"
          /\ held.by = "from_untagged_point" => held.key.variant = "Uncompressed"

\* from_compressed_point returned a key.
VariantFidelityWitness ==
    /\ op = "from_compressed_point"
    /\ result.tag = "Ok"
    /\ Len(as_bytes(result.key)) = CompressedPointSize
    /\ Len(as_bytes(result.key)) # UncompressedPointSize

AllOrNothing ==
    /\ op = "from_bytes" =>
          /\ result.tag \in {"Ok", "Err"}
          /\ result.tag = "Ok" <=>
                \/ Len(input) = CompressedPointSize /\ CompressedAccepts(input)
                \/ Len(input) = UncompressedPointSize /\ UncompressedAccepts(input)
          /\ (Len(input) = CompressedPointSize /\ ~CompressedAccepts(input))
                => result = Err(CompressedCurvePointNew(input).err, {"CompressedCurvePoint"})
          /\ (Len(input) = UncompressedPointSize /\ ~UncompressedAccepts(input))
                => result = Err(UncompressedCurvePointNew(input).err, {"UncompressedCurvePoint"})
    /\ op = "from_compressed_point" =>
          /\ result.tag \in {"Ok", "Err"}
          /\ result.tag = "Ok" <=> CompressedAccepts(input)
          /\ ~CompressedAccepts(input)
                => result = Err(CompressedCurvePointNew(input).err, {"CompressedCurvePoint"})
    /\ op \in {"from_bytes", "from_compressed_point"} =>
          /\ result.tag = "Err" => result.key = NoKey /\ held = NoHeld
          /\ result.tag = "Ok" => result.key.point.bytes = input /\ result.err = NoError
          /\ Cardinality(result.consulted) <= 1

\* The constructor refused well-tagged bytes and its error came back.
AllOrNothingWitness ==
    /\ op = "from_bytes"
    /\ Len(input) = CompressedPointSize
    /\ input[1] \in CompressedTags
    /\ result.tag = "Err"
    /\ result.err = KeyInvalid("CompressedCurvePoint", -1)

\* C10: as_bytes of a key from_bytes built from b is b, byte for byte; the key is
\* Compressed exactly when b has CompressedPointSize bytes and Uncompressed exactly
\* when it has UncompressedPointSize; as_ref gives what as_bytes gives; two keys
\* are equal iff they have the same variant and the same bytes.
ExactBytes ==
    /\ (op = "from_bytes" /\ result.tag = "Ok") =>
          /\ as_bytes(result.key) = input
          /\ as_ref(result.key) = as_bytes(result.key)
          /\ result.key.variant = "Compressed" <=> Len(input) = CompressedPointSize
          /\ result.key.variant = "Uncompressed" <=> Len(input) = UncompressedPointSize
    /\ (op \in {"as_bytes", "as_ref"} /\ held.by = "from_bytes") => view = input
    /\ (op = "second" /\ other.tag = "Ok") =>
          /\ as_bytes(other.key) = view
          /\ KeyEq(held.key, other.key)
                <=> /\ held.key.variant = other.key.variant
                    /\ as_bytes(held.key) = as_bytes(other.key)
          /\ (held.by = "from_bytes" /\ view # input) => ~KeyEq(held.key, other.key)
          /\ (held.by = "from_bytes" /\ view = input) => KeyEq(held.key, other.key)

\* The bytes of a Compressed key with tag 0x03 were read back.
ExactBytesWitness ==
    /\ op = "as_ref"
    /\ held.by = "from_bytes"
    /\ held.key.variant = "Compressed"
    /\ input[1] = 3
    /\ view = input
====
